---- MODULE Spec2Model ----
(***************************************************************************)
(* A model of wmt.py: the matrix page cache (download_matrix_page), the    *)
(* table extraction (process_to_csv), the CSV record store (csv.DictWriter *)
(* and csv.DictReader as the program uses them) and the leaderboard loop   *)
(* of main.                                                                *)
(*                                                                         *)
(* Python strings are sequences of one-character strings, so that          *)
(* comparison, rstrip and CSV quoting are computed character by character. *)
(* Catalog keys and command line words are atomic strings.                 *)
(***************************************************************************)
EXTENDS Integers, Sequences, FiniteSets, TLC

VARIABLES pc, args, dirs, rawfiles, csvfiles, call, batch, written, d,
          printed, exitcode, err, reported, completed

vars == <<pc, args, dirs, rawfiles, csvfiles, call, batch, written, d,
          printed, exitcode, err, reported, completed>>

(***************************************************************************)
(* Python strings                                                          *)
(***************************************************************************)

\* Python's None where a string is expected (a text that was not found, a
\* DictReader restkey or restval): no string of characters equals it.
NoneText == <<"<None>">>

\* The printable ASCII characters in code point order, from 32 (space); the
\* grave accent (96) keeps its place under a name.
Printable ==
  <<" ", "!", "\"", "#", "$", "%", "&", "'", "(", ")", "*", "+", ",", "-",
    ".", "/", "0", "1", "2", "3", "4", "5", "6", "7", "8", "9", ":", ";",
    "<", "=", ">", "?", "@", "A", "B", "C", "D", "E", "F", "G", "H", "I",
    "J", "K", "L", "M", "N", "O", "P", "Q", "R", "S", "T", "U", "V", "W",
    "X", "Y", "Z", "[", "\\", "]", "^", "_", "<grave>", "a", "b", "c", "d", "e",
    "f", "g", "h", "i", "j", "k", "l", "m", "n", "o", "p", "q", "r", "s",
    "t", "u", "v", "w", "x", "y", "z", "{", "|", "}", "~">>

\* ord(c)
Ord(c) ==
  IF c = "\t" THEN 9
  ELSE IF c = "\n" THEN 10
  ELSE IF c = "\r" THEN 13
  ELSE 31 + (CHOOSE i \in 1..Len(Printable) : Printable[i] = c)

\* a < b for two str: by code point, a proper prefix being smaller.
StrLt(a, b) ==
  \E k \in 1..Len(b) :
    /\ Len(a) >= k - 1
    /\ \A j \in 1..(k - 1) : a[j] = b[j]
    /\ \/ Len(a) = k - 1
       \/ Ord(a[k]) < Ord(b[k])

\* The characters str.rstrip() removes (the ASCII ones a page text holds).
Whitespace == {" ", "\t", "\n", "\r"}

RECURSIVE rstrip(_)
\* str.rstrip()
rstrip(s) ==
  IF Len(s) > 0 /\ s[Len(s)] \in Whitespace
  THEN rstrip(SubSeq(s, 1, Len(s) - 1))
  ELSE s

RECURSIVE Concat(_)
\* ''.join(parts), joined by halves
Concat(parts) ==
  IF Len(parts) = 0 THEN <<>>
  ELSE IF Len(parts) = 1 THEN parts[1]
  ELSE LET h == Len(parts) \div 2
       IN  Concat(SubSeq(parts, 1, h)) \o Concat(SubSeq(parts, h + 1, Len(parts)))

Reverse(s) == [i \in 1..Len(s) |-> s[Len(s) + 1 - i]]

Min(a, b) == IF a <= b THEN a ELSE b

(***************************************************************************)
(* The parse tree BeautifulSoup hands to process_to_csv                    *)
(***************************************************************************)

\* A NavigableString and a Tag.
TextNode(s) == [name |-> "#text", text |-> s, children |-> <<>>]
Tag(n, ch) == [name |-> n, text |-> <<>>, children |-> ch]
\* find() that finds nothing returns None.
NoNode == [name |-> "#none", text |-> <<>>, children |-> <<>>]

RECURSIVE Descendants(_)
\* Tag.descendants: every node below `node`, in document order.
Descendants(node) ==
  Concat([i \in 1..Len(node.children) |->
            <<node.children[i]>> \o Descendants(node.children[i])])

\* node.find_all(name)
find_all(node, name) ==
  SelectSeq(Descendants(node), LAMBDA n : n.name = name)

\* node.find(name)
find(node, name) ==
  LET found == find_all(node, name)
  IN  IF found = <<>> THEN NoNode ELSE found[1]

\* node.find(text=True): the first string below node, or None.
find_text(node) ==
  LET found == find_all(node, "#text")
  IN  IF found = <<>> THEN NoneText ELSE found[1].text

(***************************************************************************)
(* process_to_csv                                                          *)
(***************************************************************************)

\* The cell rule as a reader of "the cell's own direct text" would have it:
\* the strings of child elements are not looked at.
leaf_direct(node) ==
  LET own == SelectSeq(node.children, LAMBDA n : n.name = "#text")
      text == IF Len(find_all(node, "p")) = 1
              THEN find_text(find(node, "p"))
              ELSE IF own = <<>> THEN NoneText ELSE own[1].text
  IN  IF text # NoneText THEN rstrip(text) ELSE <<>>

\* leaf(node), the value of one td cell.
leaf(node) ==
  LET text == IF Len(find_all(node, "p")) = 1
              THEN find_text(find(node, "p"))
              ELSE find_text(node)
  IN  IF text # NoneText THEN rstrip(text) ELSE <<>>

\* dict(zip(keys, values)): a later pair replaces an earlier one of its key.
DictZip(keys, values) ==
  LET n == Min(Len(keys), Len(values))
  IN  [k \in {keys[i] : i \in 1..n} |->
         values[CHOOSE i \in 1..n :
                  keys[i] = k /\ \A j \in (i + 1)..n : keys[j] # k]]

\* headers = [x.find(text=True) for x in rows[0].find_all('th')]
HeadersOf(row) ==
  LET ths == find_all(row, "th")
  IN  [i \in 1..Len(ths) |-> find_text(ths[i])]

\* values = [leaf(x) for x in row.find_all('td')]
ValuesOf(row) ==
  LET tds == find_all(row, "td")
  IN  [i \in 1..Len(tds) |-> leaf(tds[i])]

\* A loop that hands every row to writerow, whatever its number of cells.
KeptRows_all(headers, rows) == rows

\* The rows the loop hands to writerow, under `if len(headers) == len(values)`.
KeptRows(headers, rows) ==
  SelectSeq(rows, LAMBDA row : Len(headers) = Len(ValuesOf(row)))

(***************************************************************************)
(* The record store: csv.DictWriter on open(txtfile, 'w') and              *)
(* csv.DictReader on open(csvfile), both with the csv module's defaults    *)
(* (delimiter ',', quotechar '"', doublequote, QUOTE_MINIMAL,              *)
(* lineterminator '\r\n') and the text mode's default newline handling.    *)
(***************************************************************************)

\* os.linesep of the platform, here POSIX.
os_linesep == <<"\n">>

\* The characters that make csv.writer quote a field: the delimiter, the
\* quote character and the characters of the line terminator.
QuoteTriggers == {",", "\"", "\r", "\n"}

\* One field as csv.writer writes it: None as '', a quote doubled, the field
\* quoted when it holds a trigger or when `force` is set.
WriteField(field, force) ==
  LET f == IF field = NoneText THEN <<>> ELSE field
      quoted == force \/ \E i \in 1..Len(f) : f[i] \in QuoteTriggers
      body == Concat([i \in 1..Len(f) |->
                        IF f[i] = "\"" THEN <<"\"", "\"">> ELSE <<f[i]>>])
  IN  IF quoted THEN <<"\"">> \o body \o <<"\"">> ELSE body

\* csv.writer.writerow(fields): a single empty field is written quoted.
WriteRow(fields) ==
  LET single == Len(fields) = 1 /\ WriteField(fields[1], FALSE) = <<>>
  IN  Concat([i \in 1..Len(fields) |->
                (IF i > 1 THEN <<",">> ELSE <<>>)
                  \o WriteField(fields[i], single)])
        \o <<"\r", "\n">>

\* DictWriter._dict_to_list: the row's value for each field name, '' when the
\* row lacks it.
DictToList(fieldnames, rowdict) ==
  [i \in 1..Len(fieldnames) |->
     IF fieldnames[i] \in DOMAIN rowdict THEN rowdict[fieldnames[i]]
     ELSE <<>>]

\* What text mode writes for a string: '\n' becomes os.linesep.
WriteTranslate(text) ==
  Concat([i \in 1..Len(text) |->
            IF text[i] = "\n" THEN os_linesep ELSE <<text[i]>>])

\* out.writeheader() and one out.writerow(record) per record, as they reach
\* the file.
DictWriterFile(fieldnames, records) ==
  WriteTranslate(
    WriteRow(DictToList(fieldnames, DictZip(fieldnames, fieldnames)))
      \o Concat([i \in 1..Len(records) |->
                   WriteRow(DictToList(fieldnames, records[i]))]))

\* What text mode reads (universal newlines): '\r\n' and '\r' become '\n'.
ReadTranslate(text) ==
  Concat([i \in 1..Len(text) |->
            IF text[i] = "\r" THEN <<"\n">>
            ELSE IF text[i] = "\n" /\ i > 1 /\ text[i - 1] = "\r" THEN <<>>
            ELSE <<text[i]>>])

\* The end-of-line mark csv.reader feeds its parser after every line.
EOL == "<EOL>"

\* parse_save_field
SaveField(s) == [s EXCEPT !.fields = Append(s.fields, s.field), !.field = <<>>]

\* parse_add_char
AddChar(s, c) == [s EXCEPT !.field = Append(s.field, c)]

\* parse_process_char of _csv.c for the default dialect.
ProcessChar(s0, c) ==
  LET newline == c \in {"\n", "\r"}
      after == IF c = EOL THEN "START_RECORD" ELSE "EAT_CRNL"
      s == IF s0.st = "START_RECORD" /\ c # EOL /\ ~newline
           THEN [s0 EXCEPT !.st = "START_FIELD"] ELSE s0
  IN  CASE s.st = "START_RECORD" ->
             IF c = EOL THEN s ELSE [s EXCEPT !.st = "EAT_CRNL"]
        [] s.st = "START_FIELD" ->
             IF newline \/ c = EOL THEN [SaveField(s) EXCEPT !.st = after]
             ELSE IF c = "\"" THEN [s EXCEPT !.st = "IN_QUOTED_FIELD"]
             ELSE IF c = "," THEN SaveField(s)
             ELSE [AddChar(s, c) EXCEPT !.st = "IN_FIELD"]
        [] s.st = "IN_FIELD" ->
             IF newline \/ c = EOL THEN [SaveField(s) EXCEPT !.st = after]
             ELSE IF c = "," THEN [SaveField(s) EXCEPT !.st = "START_FIELD"]
             ELSE AddChar(s, c)
        [] s.st = "IN_QUOTED_FIELD" ->
             IF c = EOL THEN s
             ELSE IF c = "\"" THEN [s EXCEPT !.st = "QUOTE_IN_QUOTED_FIELD"]
             ELSE AddChar(s, c)
        [] s.st = "QUOTE_IN_QUOTED_FIELD" ->
             IF c = "\"" THEN [AddChar(s, c) EXCEPT !.st = "IN_QUOTED_FIELD"]
             ELSE IF c = "," THEN [SaveField(s) EXCEPT !.st = "START_FIELD"]
             ELSE IF newline \/ c = EOL THEN [SaveField(s) EXCEPT !.st = after]
             ELSE [AddChar(s, c) EXCEPT !.st = "IN_FIELD"]
        [] s.st = "EAT_CRNL" ->
             IF newline THEN s
             ELSE IF c = EOL THEN [s EXCEPT !.st = "START_RECORD"]
             ELSE [s EXCEPT !.st = "ERROR"]
        [] OTHER -> s

RECURSIVE LineRun(_, _, _)
\* The characters of one line, from character i on, through the parser.
LineRun(line, i, s) ==
  IF i > Len(line) THEN s
  ELSE LET t == ProcessChar(s, line[i])
       IN  IF t.st = "ERROR" THEN t ELSE LineRun(line, i + 1, t)

\* One line in Reader_iternext: its characters, then EOL; a parser back in
\* START_RECORD has a row to return and starts the next one afresh.
EndLine(s, line) ==
  LET t == ProcessChar(LineRun(line, 1, s), EOL)
  IN  IF t.st = "START_RECORD"
      THEN [t EXCEPT !.rows = Append(t.rows, t.fields), !.fields = <<>>,
                     !.field = <<>>]
      ELSE t

\* The lines a text file iterates over: each ends with its '\n', the last
\* one may lack it.
LinesOf(text) ==
  LET ends == {i \in 1..Len(text) : text[i] = "\n" \/ i = Len(text)}
      start(e) == IF \E f \in ends : f < e
                  THEN 1 + CHOOSE f \in ends :
                             f < e /\ \A g \in ends : g < e => g <= f
                  ELSE 1
      nth(k) == CHOOSE e \in ends : Cardinality({f \in ends : f <= e}) = k
  IN  [k \in 1..Cardinality(ends) |-> SubSeq(text, start(nth(k)), nth(k))]

RECURSIVE ReaderRun(_, _, _)
\* csv.reader over the lines, from line k on; at the end of the input a
\* started field, or an open quote, still gives a row.
ReaderRun(lines, k, s) ==
  IF k > Len(lines)
  THEN IF Len(s.field) # 0 \/ s.st = "IN_QUOTED_FIELD"
       THEN [s EXCEPT !.rows = Append(s.rows, Append(s.fields, s.field))]
       ELSE s
  ELSE LET t == EndLine(s, lines[k])
       IN  IF t.st = "ERROR" THEN t ELSE ReaderRun(lines, k + 1, t)

\* list(csv.reader(open(path))) for a file holding `file`.
ReaderRows(file) ==
  ReaderRun(LinesOf(ReadTranslate(file)), 1,
            [st |-> "START_RECORD", field |-> <<>>, fields |-> <<>>,
             rows |-> <<>>]).rows

\* One row of DictReader: dict(zip(fieldnames, row)), the surplus values
\* under restkey None, the missing ones restval None.
ReaderRecord(fieldnames, row) ==
  LET lf == Len(fieldnames)
      lr == Len(row)
      base == DictZip(fieldnames, row)
  IN  IF lf < lr
      THEN [k \in DOMAIN base \cup {NoneText} |->
              IF k = NoneText THEN SubSeq(row, lf + 1, lr)
              ELSE base[k]]
      ELSE [k \in {fieldnames[i] : i \in 1..lf} |->
              IF \E i \in (lr + 1)..lf : fieldnames[i] = k THEN NoneText
              ELSE base[k]]

\* [x for x in csv.DictReader(open(csvfile))]: the first row gives the field
\* names, empty rows after it are skipped.
DictReaderRecords(file) ==
  LET rows == ReaderRows(file)
      body == SelectSeq(Tail(rows), LAMBDA r : r # <<>>)
  IN  IF rows = <<>> THEN <<>>
      ELSE [i \in 1..Len(body) |-> ReaderRecord(rows[1], body[i])]

\* process_to_csv(rawfile, txtfile) for a raw file that parses to `soup`:
\* the exception it raises ("" for none), the rows handed to out.writerow
\* and the file it leaves (written only when `created`: the CSV file is
\* opened after the header row has been read).
process_to_csv(soup) ==
  LET table == find(soup, "table")
      rows == find_all(table, "tr")
      headers == HeadersOf(rows[1])
      kept == KeptRows(headers, Tail(rows))
      records == [i \in 1..Len(kept) |-> DictZip(headers, ValuesOf(kept[i]))]
  IN  IF table = NoNode
      THEN [raised |-> "AttributeError", created |-> FALSE,
            records |-> <<>>, file |-> <<>>]
      ELSE IF rows = <<>>
      THEN [raised |-> "IndexError", created |-> FALSE,
            records |-> <<>>, file |-> <<>>]
      ELSE [raised |-> "", created |-> TRUE, records |-> records,
            file |-> DictWriterFile(headers, records)]

(***************************************************************************)
(* The leaderboard loop of main                                            *)
(***************************************************************************)

\* The column names main reads, and the two values it tests for.
COL_BLEU == <<"B", "L", "E", "U", "-", "c", "a", "s", "e", "d">>
COL_SYSTEM == <<"S", "y", "s", "t", "e", "m">>
COL_CONSTRAINT == <<"C", "o", "n", "s", "t", "r", "a", "i", "n", "t">>
COL_NOTES == <<"S", "y", "s", "t", "e", "m", " ", "N", "o", "t", "e", "s">>
FAILED == <<"f", "a", "i", "l", "e", "d">>
YES == <<"y", "e", "s">>

\* list.insert of x into an ascending list, after the entries that are not
\* greater: what a stable sort does with each element in turn.
InsertAsc(sorted, x, key) ==
  LET n == Len(sorted)
      at == IF \E j \in 1..n : StrLt(key[x], key[sorted[j]])
            THEN CHOOSE j \in 1..n :
                   /\ StrLt(key[x], key[sorted[j]])
                   /\ \A h \in 1..(j - 1) : ~StrLt(key[x], key[sorted[h]])
            ELSE n + 1
  IN  SubSeq(sorted, 1, at - 1) \o <<x>> \o SubSeq(sorted, at, n)

RECURSIVE SortAsc(_, _)
\* The stable ascending sort of list.sort, on the indices `idxs` of the
\* list, by key[i].
SortAsc(idxs, key) ==
  IF idxs = <<>> THEN <<>>
  ELSE InsertAsc(SortAsc(SubSeq(idxs, 1, Len(idxs) - 1), key),
                 idxs[Len(idxs)], key)

\* A descending sort that reverses the ascending result only.
sorted_reverse_late(key) ==
  Reverse(SortAsc([i \in 1..Len(key) |-> i], key))

\* sorted(d, key=..., reverse=True) as the indices of d in output order:
\* list.sort reverses the list, sorts it ascending and stably, and reverses
\* the result.
sorted_reverse(key) ==
  Reverse(SortAsc(Reverse([i \in 1..Len(key) |-> i]), key))

\* A loop without the test for failed systems.
Skipped_never(row) == FALSE

\* if row['BLEU-cased'] == 'failed': continue
Skipped(row) == row[COL_BLEU] = FAILED

\* if not args.constrained or row['Constraint'] == 'yes'
Admitted(row, constrained) == ~constrained \/ row[COL_CONSTRAINT] = YES

\* A counter that counts every row that is not failed, admitted or not.
NextCount_every(i, admitted) == i + 1

\* i += 1, inside the test for admitted rows
NextCount(i, admitted) == IF admitted THEN i + 1 ELSE i

\* if args.top_k == 0 or i <= args.top_k
Shown(i, top_k) == top_k = 0 \/ i <= top_k

\* What one shown row prints: the system line, then with --description the
\* notes and the '--' line; a column the row lacks raises KeyError after
\* the lines before it are out.
RowLines(idx, row, description) ==
  IF COL_SYSTEM \notin DOMAIN row THEN [lines |-> <<>>, raised |-> "KeyError"]
  ELSE IF ~description
  THEN [lines |-> <<[row |-> idx, line |-> "system"]>>, raised |-> ""]
  ELSE IF COL_NOTES \notin DOMAIN row
  THEN [lines |-> <<[row |-> idx, line |-> "system"]>>, raised |-> "KeyError"]
  ELSE [lines |-> <<[row |-> idx, line |-> "system"],
                    [row |-> idx, line |-> "notes"],
                    [row |-> idx, line |-> "--"]>>, raised |-> ""]

RECURSIVE LoopRun(_, _, _, _, _, _)
\* The for loop over the sorted rows, from position pos of `order` on, with
\* the counter at i and `out` printed so far.
LoopRun(records, order, pos, i, out, a) ==
  IF pos > Len(order) THEN [printed |-> out, raised |-> ""]
  ELSE
    LET idx == order[pos]
        row == records[idx]
    IN  IF Skipped(row) THEN LoopRun(records, order, pos + 1, i, out, a)
        ELSE IF a.constrained /\ COL_CONSTRAINT \notin DOMAIN row
        THEN [printed |-> out, raised |-> "KeyError"]
        ELSE
          LET admitted == Admitted(row, a.constrained)
              n == NextCount(i, admitted)
              shown == IF admitted /\ Shown(n, a.top_k)
                       THEN RowLines(idx, row, a.description)
                       ELSE [lines |-> <<>>, raised |-> ""]
          IN  IF shown.raised # ""
              THEN [printed |-> out \o shown.lines, raised |-> shown.raised]
              ELSE LoopRun(records, order, pos + 1, n, out \o shown.lines, a)

\* Lines 245 to 256 of main for the records download_matrix_page returned:
\* the lines printed and the exception raised ("" for none).  The key
\* function raises KeyError for a record without 'BLEU-cased', and a None
\* among two or more keys cannot be compared.
Leaderboard(records, a) ==
  IF \E i \in 1..Len(records) : COL_BLEU \notin DOMAIN records[i]
  THEN [printed |-> <<>>, raised |-> "KeyError"]
  ELSE
    LET key == [i \in 1..Len(records) |-> records[i][COL_BLEU]]
    IN  IF Len(records) > 1 /\ \E i \in 1..Len(records) : key[i] = NoneText
        THEN [printed |-> <<>>, raised |-> "TypeError"]
        ELSE LoopRun(records, sorted_reverse(key), 1, 0, <<>>, a)

(***************************************************************************)
(* The catalog and the cache                                               *)
(***************************************************************************)

\* None where a command line word or a catalog key is expected.
NoneArg == "<None>"

\* A URL or description as the strings between its '/' characters.
MatrixUrl(n) ==
  <<"http:", "", "matrix.statmt.org", "matrix", "systems_list", n>>

\* The dict `data`: per test set its keys with their values, in the order
\* the source lists them, which is the order .keys() gives them in.
data ==
  "wmt19" :>
    << <<"description", <<"Official results for WMT19.">>>>,
       <<"en-cs", MatrixUrl("1896")>>,
       <<"de-cs", MatrixUrl("1897")>>,
       <<"cs-de", MatrixUrl("1898")>>,
       <<"de-fr", MatrixUrl("1899")>>,
       <<"fr-de", MatrixUrl("1900")>>,
       <<"zh-en", MatrixUrl("1901")>>,
       <<"de-en", MatrixUrl("1902")>>,
       <<"fi-en", MatrixUrl("1903")>>,
       <<"gu-en", MatrixUrl("1904")>>,
       <<"kk-en", MatrixUrl("1905")>>,
       <<"lt-en", MatrixUrl("1906")>>,
       <<"ru-en", MatrixUrl("1907")>>,
       <<"en-zh", MatrixUrl("1908")>>,
       <<"en-de", MatrixUrl("1909")>>,
       <<"en-fi", MatrixUrl("1910")>>,
       <<"en-gu", MatrixUrl("1911")>>,
       <<"en-kk", MatrixUrl("1912")>>,
       <<"en-lt", MatrixUrl("1913")>>,
       <<"en-ru", MatrixUrl("1914")>> >> @@
  "wmt17" :>
    << <<"description", <<"Official evaluation data.">>>>,
       <<"cs-en", MatrixUrl("1866")>>,
       <<"de-en", MatrixUrl("1868")>>,
       <<"en-cs", MatrixUrl("1867")>>,
       <<"en-de", MatrixUrl("1869")>>,
       <<"en-fi", MatrixUrl("1871")>>,
       <<"en-lv", MatrixUrl("1873")>>,
       <<"en-ru", MatrixUrl("1875")>>,
       <<"en-tr", MatrixUrl("1877")>>,
       <<"en-zh", MatrixUrl("1879")>>,
       <<"fi-en", MatrixUrl("1870")>>,
       <<"lv-en", MatrixUrl("1872")>>,
       <<"ru-en", MatrixUrl("1874")>>,
       <<"tr-en", MatrixUrl("1876")>>,
       <<"zh-en", MatrixUrl("1878")>> >> @@
  "wmt16" :>
    << <<"description", <<"Official evaluation data for WMT 2016.">>>>,
       <<"en-cs", MatrixUrl("1844")>> >>

\* data[test_set].keys()
KeysOf(test_set) ==
  [i \in 1..Len(data[test_set]) |-> data[test_set][i][1]]

\* key in data[test_set]
HasKey(test_set, key) ==
  \E i \in 1..Len(data[test_set]) : data[test_set][i][1] = key

\* data[test_set][key]
ValueOf(test_set, key) ==
  data[test_set][CHOOSE i \in 1..Len(data[test_set]) :
                   data[test_set][i][1] = key][2]

\* '-' in x, for a key of the catalog: every key but 'description' is a
\* language pair 'xx-yy'.
HasHyphen(key) == key # "description"

\* os.path.basename
basename(path) == path[Len(path)]

\* Whether urllib finds a scheme in the URL (it raises ValueError,
\* "unknown url type", when it finds none).
HasScheme(url) == url[1] = "http:"

\* htmlpage = os.path.join(rawdir, os.path.basename(dataset))
HtmlPage(test_set, langpair) ==
  <<test_set, "raw", basename(ValueOf(test_set, langpair))>>

\* csvfile = os.path.join(outdir, '{}.{}.csv'.format(test_set, langpair))
CsvFile(test_set, langpair) == <<test_set, test_set, langpair, "csv">>

\* A download that does not look at the cache.
NeedsFetch_always(files, htmlpage) == TRUE

\* if not os.path.exists(htmlpage)
NeedsFetch(files, htmlpage) == htmlpage \notin DOMAIN files

\* if not os.path.exists(csvfile)
NeedsExtract(files, csvfile) == csvfile \notin DOMAIN files

\* The parsed command line before main has run, and the frame of
\* download_matrix_page when no call is under way.  Besides its two
\* parameters the frame records what the call found and did: whether the
\* raw page and the CSV file existed when it started, whether an earlier
\* call for the same pair had returned, whether it issued a retrieval,
\* whether it ran process_to_csv and whether it has returned to main.
NoArgs ==
  [download |-> NoneArg, test_set |-> NoneArg, langpair |-> NoneArg,
   constrained |-> FALSE, top_k |-> 0, description |-> FALSE]
NoCall ==
  [test_set |-> NoneArg, langpair |-> NoneArg, rawAtStart |-> FALSE,
   csvAtStart |-> FALSE, doneBefore |-> FALSE, fetched |-> FALSE,
   extracted |-> FALSE, returned |-> FALSE]

(***************************************************************************)
(* The pages, records and command lines the model runs the program on      *)
(***************************************************************************)

\* A td or th cell holding the text s, and the page of one table with the
\* header texts `headers` and one tr of td cells per row of texts.
CellOf(name, s) ==
  Tag(name, IF s = <<>> THEN <<>> ELSE <<TextNode(s)>>)
RowOf(name, texts) ==
  Tag("tr", [i \in 1..Len(texts) |-> CellOf(name, texts[i])])
PageOf(trs) == Tag("[document]", <<Tag("table", trs)>>)
TablePage(headers, rows) ==
  PageOf(<<RowOf("th", headers)>>
           \o [i \in 1..Len(rows) |-> RowOf("td", rows[i])])

\* Sequences over S of length 0 to n.
SeqsUpTo(S, n) == UNION {[1..k -> S] : k \in 0..n}

\* The page of the end-to-end scenario: System, BLEU-cased, Constraint with
\* the rows (A, 30.1, yes), (B, failed, no), (C, 28.5, yes).
ScenarioFields == <<COL_SYSTEM, COL_BLEU, COL_CONSTRAINT>>
ScenarioTexts ==
  << <<<<"A">>, <<"3", "0", ".", "1">>, YES>>,
     <<<<"B">>, FAILED, <<"n", "o">>>>,
     <<<<"C">>, <<"2", "8", ".", "5">>, YES>> >>
ScenarioPage == TablePage(ScenarioFields, ScenarioTexts)
\* A page whose table has the header row only, and a page without a table.
HeaderOnlyPage == TablePage(<<COL_SYSTEM, COL_BLEU, COL_CONSTRAINT>>, <<>>)
NoTablePage == Tag("[document]", <<Tag("p", <<TextNode(<<"4", "0", "4">>)>>)>>)

\* What a retrieval may return.
Pages == {ScenarioPage, HeaderOnlyPage, NoTablePage}

\* The command lines of the full model.
TestSetInputs == {"wmt19", "wmt16", "wmt99"}
LangpairInputs == {"en-cs", "description", "xx-yy"}
MaxTopK == 1
ArgInputs ==
  [download : {NoneArg} \cup TestSetInputs,
   test_set : {NoneArg} \cup TestSetInputs,
   langpair : {NoneArg} \cup LangpairInputs,
   constrained : BOOLEAN, top_k : 0..MaxTopK, description : BOOLEAN]

\* The pages of the extraction model.  A structure page has up to MaxCols
\* header cells (a plain one, one with spaces around its text, one with its
\* text in a link) and up to MaxDataRows rows of 0 to MaxCols equal cells.
MaxCols == 2
MaxDataRows == 2
HeaderCells ==
  {CellOf("th", <<"S">>), CellOf("th", <<" ", "B", " ">>),
   Tag("th", <<Tag("a", <<TextNode(<<"N">>)>>)>>)}
DataCells ==
  {CellOf("td", <<"x">>), Tag("td", <<Tag("p", <<TextNode(<<"y", " ">>)>>)>>)}
DataRows ==
  {Tag("tr", [i \in 1..n |-> c]) : n \in 0..MaxCols, c \in DataCells}
StructPages ==
  {PageOf(<<Tag("tr", h)>> \o rows) :
     h \in SeqsUpTo(HeaderCells, MaxCols),
     rows \in SeqsUpTo(DataRows, MaxDataRows)}

\* A cell page has one column and one row, whose td cell has up to
\* MaxChildren children: strings, p and a elements, empty or with a string,
\* a p inside an a, and a p whose string is inside a b.
MaxChildren == 2
CellNodes ==
  {TextNode(t) : t \in {<<"x">>, <<"y", " ">>, <<" ">>}}
    \cup {Tag(n, ch) : n \in {"p", "a"},
                       ch \in {<<>>, <<TextNode(<<"u">>)>>,
                               <<TextNode(<<"v", "\n">>)>>}}
    \cup {Tag("a", <<Tag("p", <<TextNode(<<"w">>)>>)>>),
          Tag("p", <<Tag("b", <<TextNode(<<"q">>)>>)>>)}
CellPages ==
  {PageOf(<<RowOf("th", <<<<"S">>>>), Tag("tr", <<Tag("td", ch)>>)>>) :
     ch \in SeqsUpTo(CellNodes, MaxChildren)}

\* A value page has plain cells whose texts hold the characters the CSV
\* format treats specially: one row of two columns, or two rows of one.
CsvTexts ==
  {<<>>, <<"a">>, <<"a", ",", "b">>, <<"\"">>, <<"a", "\n", "b">>,
   <<"a", "\r", "b">>}
CsvPages ==
  {TablePage(<<<<"S">>, <<"B">>>>, <<r>>) : r \in [1..2 -> CsvTexts]}
    \cup {TablePage(<<<<"S">>>>, <<<<r[1]>>, <<r[2]>>>>) :
            r \in [1..2 -> CsvTexts]}

ExtractPages == StructPages \cup CellPages \cup CsvPages


\* The records of the leaderboard model: up to MaxRows systems, named by
\* their place, each with one of the scores and one of the constraint
\* values, under the four columns main reads; and the records of the
\* scenario page.
MaxRows == 3
RankFields == <<COL_SYSTEM, COL_BLEU, COL_CONSTRAINT, COL_NOTES>>
RankScores ==
  {<<"9", ".", "9">>, <<"1", "0", ".", "1">>, <<"2", ".", "0">>, FAILED}
RankConstraints == {YES, <<"n", "o">>}
SystemNames == <<"A", "B", "C", "D", "E", "F", "G", "H">>
RankTexts ==
  {[i \in 1..Len(r) |-> <<<<SystemNames[i]>>, r[i][1], r[i][2], <<"n">>>>] :
     r \in SeqsUpTo(RankScores \X RankConstraints, MaxRows)}
\* The tables of the leaderboard model, as field names and rows of texts.
RankTables ==
  {[fields |-> RankFields, rows |-> r] : r \in RankTexts}
    \cup {[fields |-> ScenarioFields, rows |-> ScenarioTexts]}
RankArgs ==
  {[NoArgs EXCEPT !.test_set = "wmt16", !.langpair = "en-cs",
                  !.constrained = c, !.top_k = k, !.description = n] :
     c \in BOOLEAN, k \in (-1)..MaxRows, n \in BOOLEAN}


(***************************************************************************)
(* The program: main, download_matrix_page and the steps between them      *)
(***************************************************************************)

\* A file written at a path: open(path, 'w') creates or replaces it.
Put(files, path, content) ==
  [q \in DOMAIN files \cup {path} |-> IF q = path THEN content ELSE files[q]]

\* The file an interrupted out.write(f.read()) leaves: created and empty.
EmptyPage == Tag("[document]", <<>>)

\* parse_args() on the words given: argparse rejects a --test-set outside
\* choices=data.keys() itself, with its usage message and exit status 2.
ParseArgs(a) ==
  IF a.test_set # NoneArg /\ a.test_set \notin DOMAIN data
  THEN [exit |-> 2,
        reported |-> {"argparse: invalid choice"} \cup DOMAIN data]
  ELSE [exit |-> -1, reported |-> {}]

\* The language pairs line 241 lists: the keys with a '-'.
AvailablePairs(test_set) ==
  {KeysOf(test_set)[i] : i \in {j \in 1..Len(data[test_set]) :
                                  HasHyphen(KeysOf(test_set)[j])}}

\* main from `if args.download:` to the call of download_matrix_page: the
\* exit status it ends with (-1 while it goes on), what it has logged, and
\* the call it goes on to.
Dispatch(a) ==
  IF a.download # NoneArg
  THEN [exit |-> -1, reported |-> {}, calls |-> TRUE,
        test_set |-> a.download]
  ELSE IF a.test_set # NoneArg /\ a.test_set \notin DOMAIN data
  THEN [exit |-> 1,
        reported |-> {"The available test sets are"} \cup DOMAIN data,
        calls |-> FALSE, test_set |-> NoneArg]
  ELSE IF a.test_set # NoneArg
          /\ (a.langpair = NoneArg \/ ~HasKey(a.test_set, a.langpair))
  THEN [exit |-> 1,
        reported |->
          {IF a.langpair = NoneArg THEN "I need a language pair (-l)."
           ELSE "No such language pair"}
          \cup {"Available language pairs for test set"}
          \cup AvailablePairs(a.test_set),
        calls |-> FALSE, test_set |-> NoneArg]
  ELSE IF a.test_set # NoneArg
  THEN [exit |-> -1, reported |-> {}, calls |-> TRUE,
        test_set |-> a.test_set]
  ELSE [exit |-> 0, reported |-> {}, calls |-> FALSE, test_set |-> NoneArg]

\* The process ends: sys.exit(code), the end of main, or an exception no
\* one catches (status 1).
Exits(code, exception) ==
  /\ pc' = "exited"
  /\ exitcode' = code
  /\ err' = exception

\* main() from the command line to its first call, or to its exit.
MainStart(a) ==
  /\ pc = "start"
  /\ args' = a
  /\ LET parsed == ParseArgs(a)
         go == Dispatch(a)
     IN  IF parsed.exit # -1
         THEN /\ Exits(parsed.exit, "")
              /\ reported' = parsed.reported
              /\ UNCHANGED call
         ELSE IF go.calls
         THEN /\ pc' = "enter"
              /\ call' = [NoCall EXCEPT !.test_set = go.test_set,
                                        !.langpair = a.langpair]
              /\ reported' = go.reported
              /\ UNCHANGED <<exitcode, err>>
         ELSE /\ Exits(go.exit, "")
              /\ reported' = go.reported
              /\ UNCHANGED call
  /\ UNCHANGED <<dirs, rawfiles, csvfiles, batch, written, d, printed,
                 completed>>

\* download_matrix_page(test_set, langpair) from its entry to the raw
\* directory: with no language pair it starts the loop over the keys of
\* the test set, with one it looks the page up and makes the directory.
DownloadEnter ==
  /\ pc = "enter"
  /\ LET ts == call.test_set
         lp == call.langpair
     IN  IF ts \notin DOMAIN data
         THEN /\ Exits(1, "KeyError")
              /\ UNCHANGED <<call, batch, dirs>>
         ELSE IF lp = NoneArg
         THEN IF Len(data[ts]) = 0
              THEN /\ Exits(0, "")
                   /\ UNCHANGED <<call, batch, dirs>>
              ELSE /\ batch' = 1
                   /\ call' = [NoCall EXCEPT !.test_set = ts,
                                             !.langpair = KeysOf(ts)[1]]
                   /\ UNCHANGED <<pc, exitcode, err, dirs>>
         ELSE IF ~HasKey(ts, lp)
         THEN /\ Exits(1, "KeyError")
              /\ UNCHANGED <<call, batch, dirs>>
         ELSE /\ dirs' = dirs \cup {ts}
              /\ call' = [call EXCEPT
                   !.rawAtStart = HtmlPage(ts, lp) \in DOMAIN rawfiles,
                   !.csvAtStart = CsvFile(ts, lp) \in DOMAIN csvfiles,
                   !.doneBefore = <<ts, lp>> \in DOMAIN completed]
              /\ pc' = "fetch"
              /\ UNCHANGED <<batch, exitcode, err>>
  /\ written' = <<>>
  /\ UNCHANGED <<args, rawfiles, csvfiles, d, printed, reported, completed>>

\* Lines 183 to 188: the page is retrieved when the raw file is absent.
\* The retrieval gives a page, or fails before the file is opened, or
\* fails in f.read(), after open(htmlpage, 'wb') has created the file.
Fetch ==
  /\ pc = "fetch"
  /\ LET htmlpage == HtmlPage(call.test_set, call.langpair)
         dataset == ValueOf(call.test_set, call.langpair)
     IN  IF ~NeedsFetch(rawfiles, htmlpage)
         THEN /\ pc' = "extract"
              /\ UNCHANGED <<rawfiles, call, exitcode, err>>
         ELSE IF ~HasScheme(dataset)
         THEN /\ Exits(1, "ValueError")
              /\ UNCHANGED <<rawfiles, call>>
         ELSE /\ call' = [call EXCEPT !.fetched = TRUE]
              /\ \/ \E page \in Pages :
                      /\ rawfiles' = Put(rawfiles, htmlpage, page)
                      /\ pc' = "extract"
                      /\ UNCHANGED <<exitcode, err>>
                 \/ /\ Exits(1, "URLError")
                    /\ UNCHANGED rawfiles
                 \/ /\ Exits(1, "IncompleteRead")
                    /\ rawfiles' = Put(rawfiles, htmlpage, EmptyPage)
  /\ UNCHANGED <<args, dirs, csvfiles, batch, written, d, printed, reported,
                 completed>>

\* Lines 190 to 192: process_to_csv runs when the CSV file is absent.
Extract ==
  /\ pc = "extract"
  /\ LET htmlpage == HtmlPage(call.test_set, call.langpair)
         csvfile == CsvFile(call.test_set, call.langpair)
         out == process_to_csv(rawfiles[htmlpage])
     IN  IF ~NeedsExtract(csvfiles, csvfile)
         THEN /\ pc' = "read"
              /\ UNCHANGED <<csvfiles, call, written, exitcode, err>>
         ELSE /\ call' = [call EXCEPT !.extracted = TRUE]
              /\ written' = out.records
              /\ csvfiles' = IF out.created
                             THEN Put(csvfiles, csvfile, out.file)
                             ELSE csvfiles
              /\ IF out.raised # ""
                 THEN Exits(1, out.raised)
                 ELSE /\ pc' = "read"
                      /\ UNCHANGED <<exitcode, err>>
  /\ UNCHANGED <<args, dirs, rawfiles, batch, d, printed, reported,
                 completed>>

\* Line 197 and the return: the records of the CSV file go back to the
\* caller, which is the loop of the batch call (line 173), or main, which
\* exits after a --download and prints the leaderboard otherwise.
ReadBack ==
  /\ pc = "read"
  /\ LET ts == call.test_set
         lp == call.langpair
         records == DictReaderRecords(csvfiles[CsvFile(ts, lp)])
     IN  /\ d' = records
         /\ completed' = IF <<ts, lp>> \in DOMAIN completed THEN completed
                         ELSE Put(completed, <<ts, lp>>, records)
         /\ IF batch > 0 /\ batch < Len(data[ts])
            THEN /\ batch' = batch + 1
                 /\ call' = [NoCall EXCEPT
                               !.test_set = ts,
                               !.langpair = KeysOf(ts)[batch + 1]]
                 /\ pc' = "enter"
                 /\ UNCHANGED <<exitcode, err>>
            ELSE IF args.download # NoneArg
            THEN /\ Exits(0, "")
                 /\ batch' = 0
                 /\ call' = [call EXCEPT !.returned = TRUE]
            ELSE /\ pc' = "leaderboard"
                 /\ call' = [call EXCEPT !.returned = TRUE]
                 /\ UNCHANGED <<batch, exitcode, err>>
  /\ UNCHANGED <<args, dirs, rawfiles, csvfiles, written, printed, reported>>

\* Lines 246 to 256, and the end of main.
PrintLeaderboard ==
  /\ pc = "leaderboard"
  /\ LET out == Leaderboard(d, args)
     IN  /\ printed' = out.printed
         /\ Exits(IF out.raised = "" THEN 0 ELSE 1, out.raised)
  /\ UNCHANGED <<args, dirs, rawfiles, csvfiles, call, batch, written, d,
                 reported, completed>>

\* The program is run again, on the cache the earlier runs left.
NewRun ==
  /\ pc = "exited"
  /\ pc' = "start"
  /\ args' = NoArgs
  /\ call' = NoCall
  /\ batch' = 0
  /\ written' = <<>>
  /\ d' = <<>>
  /\ printed' = <<>>
  /\ exitcode' = -1
  /\ err' = ""
  /\ reported' = {}
  /\ UNCHANGED <<dirs, rawfiles, csvfiles, completed>>

(***************************************************************************)
(* Specifications                                                          *)
(***************************************************************************)

\* The program on an empty cache, run any number of times.
Init ==
  /\ pc = "start"
  /\ args = NoArgs
  /\ dirs = {}
  /\ rawfiles = <<>>
  /\ csvfiles = <<>>
  /\ call = NoCall
  /\ batch = 0
  /\ written = <<>>
  /\ d = <<>>
  /\ printed = <<>>
  /\ exitcode = -1
  /\ err = ""
  /\ reported = {}
  /\ completed = <<>>

Next ==
  \/ \E a \in ArgInputs : MainStart(a)
  \/ DownloadEnter
  \/ Fetch
  \/ Extract
  \/ ReadBack
  \/ PrintLeaderboard
  \/ NewRun

Spec == Init /\ [][Next]_vars

(***************************************************************************)
(* The cache and the exit status (Spec)                                    *)
(***************************************************************************)

\* C1: a call of download_matrix_page for one language pair retrieves the
\* page only if the raw file was absent when the call started, and runs
\* process_to_csv only if the CSV file was absent then; once a call for a
\* pair has returned, a later call for it retrieves nothing, extracts
\* nothing and returns the records of the CSV file that is there, which are
\* the records the first call returned.
C1_CacheFirst ==
  /\ call.fetched => ~call.rawAtStart
  /\ call.extracted => ~call.csvAtStart
  /\ call.doneBefore => ~call.fetched /\ ~call.extracted
  /\ call.doneBefore /\ call.returned =>
       /\ d = completed[<<call.test_set, call.langpair>>]
       /\ d = DictReaderRecords(
                csvfiles[CsvFile(call.test_set, call.langpair)])

\* C1, witness: a call for a pair an earlier call has completed has
\* returned records without a retrieval and without an extraction.
C1_Witness ==
  /\ call.doneBefore
  /\ call.returned
  /\ ~call.fetched
  /\ ~call.extracted
  /\ Len(d) > 0

\* The exceptions a failing network or a malformed page raises in
\* download_matrix_page and process_to_csv.
OutsideFailures == {"URLError", "IncompleteRead", "AttributeError", "IndexError"}

\* C9: the batch call download_matrix_page(test_set, None) visits only
\* language pairs of the test set, and unless the network or a page fails
\* it completes with the raw page and the CSV file present for every
\* language pair of the test set.
C9_BatchVisitsLanguagePairs ==
  /\ batch > 0 => call.langpair \in AvailablePairs(call.test_set)
  /\ ( /\ pc = "exited"
       /\ args.test_set = NoneArg
       /\ args.download \in DOMAIN data
       /\ args.langpair = NoneArg
       /\ err \notin OutsideFailures )
     => /\ exitcode = 0
        /\ \A lp \in AvailablePairs(args.download) :
             /\ HtmlPage(args.download, lp) \in DOMAIN rawfiles
             /\ CsvFile(args.download, lp) \in DOMAIN csvfiles

\* C8: main ends with status 0 after a leaderboard and after a download;
\* it ends with status 1, the valid choices reported and nothing
\* retrieved, for a test set outside the catalog, for a test set without a
\* language pair and for a language pair the test set does not have.
C8_ExitStatus ==
  pc = "exited" =>
    /\ ( /\ args.download = NoneArg
         /\ args.test_set \in DOMAIN data
         /\ args.langpair \in AvailablePairs(args.test_set)
         /\ err = "" )
       => exitcode = 0
    /\ ( /\ args.download \in DOMAIN data
         /\ args.test_set \in DOMAIN data \cup {NoneArg}
         /\ args.langpair \in AvailablePairs(args.download) \cup {NoneArg}
         /\ err \notin OutsideFailures )
       => exitcode = 0
    /\ (args.test_set # NoneArg /\ args.test_set \notin DOMAIN data)
       => /\ exitcode = 1
          /\ DOMAIN data \subseteq reported
          /\ ~call.fetched
    /\ ( /\ args.download = NoneArg
         /\ args.test_set \in DOMAIN data
         /\ args.langpair \notin AvailablePairs(args.test_set) )
       => /\ exitcode = 1
          /\ AvailablePairs(args.test_set) \subseteq reported
          /\ ~call.fetched

\* The program after a retrieval for --download wmt16 -l en-cs has left a
\* page of ExtractPages in the raw file: the extraction and the read.
InitExtract ==
  /\ pc = "extract"
  /\ args = [NoArgs EXCEPT !.download = "wmt16", !.langpair = "en-cs"]
  /\ dirs = {"wmt16"}
  /\ \E page \in ExtractPages :
       rawfiles = Put(<<>>, HtmlPage("wmt16", "en-cs"), page)
  /\ csvfiles = <<>>
  /\ call = [NoCall EXCEPT !.test_set = "wmt16", !.langpair = "en-cs",
                           !.fetched = TRUE]
  /\ batch = 0
  /\ written = <<>>
  /\ d = <<>>
  /\ printed = <<>>
  /\ exitcode = -1
  /\ err = ""
  /\ reported = {}
  /\ completed = <<>>

NextExtract ==
  \/ Extract
  \/ ReadBack

SpecExtract == InitExtract /\ [][NextExtract]_vars

\* The program run with -t wmt16 -l en-cs, after download_matrix_page has
\* returned the records of a table of RankTables from the cache: the
\* leaderboard.
InitRank ==
  /\ pc = "leaderboard"
  /\ dirs = {"wmt16"}
  /\ \E t \in RankTables :
       LET records == [i \in 1..Len(t.rows) |-> DictZip(t.fields, t.rows[i])]
       IN  /\ d = records
           /\ rawfiles = Put(<<>>, HtmlPage("wmt16", "en-cs"),
                             TablePage(t.fields, t.rows))
           /\ csvfiles = Put(<<>>, CsvFile("wmt16", "en-cs"),
                             DictWriterFile(t.fields, records))
           /\ completed = Put(<<>>, <<"wmt16", "en-cs">>, records)
  /\ args \in RankArgs
  /\ call = [NoCall EXCEPT !.test_set = "wmt16", !.langpair = "en-cs",
                           !.rawAtStart = TRUE, !.csvAtStart = TRUE,
                           !.doneBefore = TRUE, !.returned = TRUE]
  /\ batch = 0
  /\ written = <<>>
  /\ printed = <<>>
  /\ exitcode = -1
  /\ err = ""
  /\ reported = {}

SpecRank == InitRank /\ [][PrintLeaderboard]_vars

(***************************************************************************)
(* The leaderboard (SpecRank)                                              *)
(***************************************************************************)

\* The records whose system line was printed, as places in d, in the order
\* of printing.
RowsPrinted(out) ==
  LET sys == SelectSeq(out, LAMBDA p : p.line = "system")
  IN  [k \in 1..Len(sys) |-> sys[k].row]

\* Record i passes the tests of the loop.
Passes(i) ==
  /\ d[i][COL_BLEU] # FAILED
  /\ args.constrained => d[i][COL_CONSTRAINT] = YES

\* C2: no record with the score 'failed' is printed, wherever it sits, and
\* with --constrained no record whose Constraint is not 'yes'; with
\* top_k = 0 a loop that ends has printed every record that passes both
\* tests exactly once.
C2_FailedNeverPrinted ==
  /\ \A k \in 1..Len(RowsPrinted(printed)) : Passes(RowsPrinted(printed)[k])
  /\ (pc = "exited" /\ err = "" /\ args.top_k = 0) =>
       \A i \in 1..Len(d) :
         Passes(i) =>
           Cardinality({k \in 1..Len(RowsPrinted(printed)) :
                          RowsPrinted(printed)[k] = i}) = 1

\* C2, witness: with top_k = 0 the first and the last of three records are
\* failed, and the one between them is the only one printed.
C2_Witness ==
  /\ pc = "exited"
  /\ err = ""
  /\ args.top_k = 0
  /\ Len(d) = 3
  /\ d[1][COL_BLEU] = FAILED
  /\ d[3][COL_BLEU] = FAILED
  /\ RowsPrinted(printed) = <<2>>

\* C3: the records are printed in descending order of their 'BLEU-cased'
\* strings, compared as strings, and two printed records with equal
\* strings keep the order they have in d.
C3_StringOrderStable ==
  LET rows == RowsPrinted(printed)
  IN  \A k \in 1..Len(rows) : \A m \in (k + 1)..Len(rows) :
        /\ ~StrLt(d[rows[k]][COL_BLEU], d[rows[m]][COL_BLEU])
        /\ d[rows[k]][COL_BLEU] = d[rows[m]][COL_BLEU] => rows[k] < rows[m]

\* C3, witness: the scores "9.9", "10.1", "2.0" came out as "9.9", "2.0",
\* "10.1".
C3_Witness ==
  /\ pc = "exited"
  /\ Len(d) = 3
  /\ d[1][COL_BLEU] = <<"9", ".", "9">>
  /\ d[2][COL_BLEU] = <<"1", "0", ".", "1">>
  /\ d[3][COL_BLEU] = <<"2", ".", "0">>
  /\ RowsPrinted(printed) = <<1, 3, 2>>

\* C4: with top_k = k > 0 the records printed are the first min(k, n) of
\* the n records printed with top_k = 0 and the same other options.
C4_TopKPrefix ==
  (pc = "exited" /\ args.top_k > 0) =>
    LET all == RowsPrinted(Leaderboard(d, [args EXCEPT !.top_k = 0]).printed)
    IN  RowsPrinted(printed) = SubSeq(all, 1, Min(args.top_k, Len(all)))

\* C4, witness: the scenario table with --constrained and top_k = 1 printed
\* exactly A, whose score is 30.1.
C4_Witness ==
  /\ pc = "exited"
  /\ err = ""
  /\ d = [i \in 1..3 |-> DictZip(ScenarioFields, ScenarioTexts[i])]
  /\ args.constrained
  /\ args.top_k = 1
  /\ RowsPrinted(printed) = <<1>>
  /\ d[1][COL_SYSTEM] = <<"A">>
  /\ d[1][COL_BLEU] = <<"3", "0", ".", "1">>

(***************************************************************************)
(* The extraction and the record store (SpecExtract)                       *)
(***************************************************************************)

\* The page in the raw file of the call, the tr elements of its table, the
\* cells of one row, and the rows after the header row.
ThePage == rawfiles[HtmlPage(call.test_set, call.langpair)]
TableRows == ThePage.children[1].children
CellsOf(tr, name) == SelectSeq(tr.children, LAMBDA n : n.name = name)
BodyRows == Tail(TableRows)
NumHeaders == Len(CellsOf(TableRows[1], "th"))

\* The data rows with as many td cells as there are header cells, and the
\* place of such a row among them.
Matching ==
  {i \in 1..Len(BodyRows) : Len(CellsOf(BodyRows[i], "td")) = NumHeaders}
PlaceOf(i) == Cardinality({j \in Matching : j <= i})

\* A string without its trailing, and without its surrounding, whitespace.
TrimRight(t) ==
  SubSeq(t, 1, IF \E k \in 1..Len(t) : t[k] \notin Whitespace
               THEN CHOOSE k \in 1..Len(t) :
                      /\ t[k] \notin Whitespace
                      /\ \A m \in (k + 1)..Len(t) : t[m] \in Whitespace
               ELSE 0)
Trim(t) == Reverse(TrimRight(Reverse(TrimRight(t))))

RECURSIVE FirstText(_)
\* The first string in document order in a list of nodes, looking into
\* the elements; NoneText when there is none.
FirstText(nodes) ==
  IF nodes = <<>> THEN NoneText
  ELSE IF Head(nodes).name = "#text" THEN Head(nodes).text
  ELSE LET inner == FirstText(Head(nodes).children)
       IN  IF inner # NoneText THEN inner ELSE FirstText(Tail(nodes))

RECURSIVE ParagraphsIn(_)
\* The p elements in a list of nodes and below them, in document order.
ParagraphsIn(nodes) ==
  IF nodes = <<>> THEN <<>>
  ELSE (IF Head(nodes).name = "p" THEN <<Head(nodes)>> ELSE <<>>)
         \o ParagraphsIn(Head(nodes).children) \o ParagraphsIn(Tail(nodes))

\* The first string among the children of a node themselves.
DirectText(node) ==
  LET own == SelectSeq(node.children, LAMBDA n : n.name = "#text")
  IN  IF own = <<>> THEN NoneText ELSE own[1].text

\* The value of a cell: the first string of its only p element, or else the
\* first string anywhere in the cell, without trailing whitespace, '' when
\* there is no string.
CellValue(cell) ==
  LET ps == ParagraphsIn(cell.children)
      t == IF Len(ps) = 1 THEN FirstText(ps[1].children)
           ELSE FirstText(cell.children)
  IN  IF t = NoneText THEN <<>> ELSE TrimRight(t)

\* The value of a cell when, without exactly one p element, only the
\* cell's own strings count.
CellValueDirect(cell) ==
  LET ps == ParagraphsIn(cell.children)
      t == IF Len(ps) = 1 THEN FirstText(ps[1].children)
           ELSE DirectText(cell)
  IN  IF t = NoneText THEN <<>> ELSE TrimRight(t)

\* Column j is the last one of its name: dict(zip()) keeps its value.
LastOfName(headers, j) == \A k \in (j + 1)..Len(headers) : headers[k] # headers[j]

\* C5: for a table whose header row has th cells with a text each and
\* whose data rows all have as many td cells, process_to_csv gives one
\* record per data row, in order, and the column names of every record are
\* the texts of the header cells with the surrounding whitespace trimmed.
C5_RecordPerRowTrimmedNames ==
  ( /\ call.extracted
    /\ NumHeaders > 0
    /\ \A j \in 1..NumHeaders :
         FirstText(CellsOf(TableRows[1], "th")[j].children) # NoneText
    /\ Matching = 1..Len(BodyRows) )
  => /\ Len(written) = Len(BodyRows)
     /\ \A i \in 1..Len(BodyRows) :
          DOMAIN written[i] =
            {Trim(FirstText(CellsOf(TableRows[1], "th")[j].children)) :
               j \in 1..NumHeaders}

\* C6: a data row whose number of td cells differs from the number of
\* header cells is left out without an error, and the rows written are
\* exactly the other data rows, in their order; a table with a header row
\* only gives no record, and no error.
C6_MismatchedRowsDropped ==
  call.extracted =>
    /\ err = ""
    /\ Len(written) = Cardinality(Matching)
    /\ \A i \in Matching :
         written[PlaceOf(i)] =
           DictZip(HeadersOf(TableRows[1]),
                   [j \in 1..NumHeaders |->
                      CellValue(CellsOf(BodyRows[i], "td")[j])])
    /\ BodyRows = <<>> => written = <<>> /\ (call.returned => d = <<>>)

\* C6, witness: a row with the wrong number of cells came before a row
\* with the right number, and only the second one was written.
C6_Witness ==
  /\ call.extracted
  /\ call.returned
  /\ Len(BodyRows) = 2
  /\ Matching = {2}
  /\ Len(written) = 1
  /\ Len(d) = 1

\* C10 as amended: the value of a td cell is the first string of its p
\* element when it has exactly one, and otherwise the first string in
\* document order anywhere in the cell, be it the cell's own or inside a
\* child element; trailing whitespace is removed, and no string gives ''.
C10_CellValue ==
  call.extracted =>
    \A i \in Matching : \A j \in 1..NumHeaders :
      LastOfName(HeadersOf(TableRows[1]), j) =>
        written[PlaceOf(i)][HeadersOf(TableRows[1])[j]]
          = CellValue(CellsOf(BodyRows[i], "td")[j])

\* C10, witness: a cell without a p element and without a string of its
\* own got the string of its child element.
C10_Witness ==
  /\ call.extracted
  /\ BodyRows = <<Tag("tr", <<Tag("td", <<Tag("a", <<TextNode(<<"u">>)>>)>>)>>)>>
  /\ written = <<DictZip(<<<<"S">>>>, <<<<"u">>>>)>>

\* C10 as stated: without exactly one p element the value is the cell's own
\* direct text, never a string from inside a child element.
C10_DirectTextOnly ==
  call.extracted =>
    \A i \in Matching : \A j \in 1..NumHeaders :
      LastOfName(HeadersOf(TableRows[1]), j) =>
        written[PlaceOf(i)][HeadersOf(TableRows[1])[j]]
          = CellValueDirect(CellsOf(BodyRows[i], "td")[j])

\* C7: the records written with csv.DictWriter, when there is at least one
\* and the columns have names, are read back by csv.DictReader unchanged:
\* the same records in the same order.
C7_RoundTrip ==
  ( /\ call.returned
    /\ written # <<>>
    /\ NumHeaders > 0
    /\ \A j \in 1..NumHeaders : HeadersOf(TableRows[1])[j] # NoneText )
  => d = written

====
